---- MODULE Spec2Model ----
(***************************************************************************)
(* Token-bucket rate limiter (src/main.py).                                *)
(*                                                                         *)
(* RequestTokenBucket objects live in a heap (buckets); the rate limiter's *)
(* dictionary maps account ids to heap references.  Each thread executes   *)
(* allowRequestToService statement by statement; addAccount, removeAccount *)
(* and printBucketSummary are calls of the surrounding driver, which runs   *)
(* printBucketSummary print by print in the main thread.                   *)
(*                                                                         *)
(* time.time() is modelled in half seconds (wall), so that                 *)
(* int(round(time.time())) is a real conversion: Python 3 rounds a tie to  *)
(* the even integer.                                                       *)
(***************************************************************************)
EXTENDS Integers, Sequences, FiniteSets, TLC

VARIABLES
    wall,             \* time.time(), in half seconds
    input,            \* maxTokensInput, refillRateInput: what the driver read
    ratelimiterDict,  \* TokenBucketRateLimiter.ratelimiterDict: account id -> bucket ref
    buckets,          \* heap of RequestTokenBucket objects, ref = index
    pc,               \* per thread: position inside allowRequestToService, or, for
                      \* the main thread, inside printBucketSummary
    accountID,        \* per thread: argument accountID of the running call (0 = no call)
    tokenBucket,      \* per thread: local variable tokenBucket, or self of
                      \* printBucketSummary (bucket ref, 0 = unbound)
    event,            \* what the last step handed to its caller: a return value, a
                      \* raised exception, the printed summary (None: nothing)
    observed,         \* sequential driver: what the running call read and found
    schedule,         \* sequential driver: the instants (seconds) of the calls to make
    history,          \* sequential driver: one record per finished call
    loop              \* looping driver, per thread: the line of simulateRequests
                      \* it is at, its end_time and the end of its sleep

vars == <<wall, input, ratelimiterDict, buckets, pc, accountID, tokenBucket,
          event, observed, schedule, history, loop>>

----------------------------------------------------------------------------
(* Bounds of the model *)

\* last value of wall (half seconds) the concurrent model lets the clock reach
MaxWall == 3
\* largest size of the maxTokens / refillRate the driver reads in the
\* concurrent model: int(input()) gives any integer, negative ones included
MaxParam == 1
\* RequestTokenBucket objects constructed in all in the concurrent model
MaxBuckets == 2
\* RequestTokenBucket(5, 10) objects constructed in all in the concurrent model
MaxBucketsTwo == 1
\* a bucket with a negative refillRate loses tokens at every call: no call is
\* started on a bucket whose currentCount is MaxDebt below zero
MaxDebt == 1
\* sequential driver: calls per schedule, last instant (seconds) of a schedule,
\* largest maxTokens and refillRate
SeqCalls == 4
SeqMaxTime == 3
SeqMaxTokens == 2
SeqMaxRate == 2
\* stress driver: calls made in all, largest maxTokens and refillRate
StressCalls == 3
StressMaxTokens == 2
StressMaxRate == 2
\* rate driver: calls made in all, largest maxTokens and refillRate
RateCalls == 4
RateMaxTokens == 2
RateMaxRate == 2
\* looping driver: last value of wall (half seconds), largest maxTokens and
\* refillRate of the bucket of account 1
LiveMaxWall == 6
LiveMaxTokens == 1
LiveMaxRate == 3

(* Program constants *)

\* the two simulateRequests threads, thread1 and thread2
Threads == {"thread1", "thread2"}
\* the thread that runs the driver itself
MainThread == "MainThread"
Procs == Threads \cup {MainThread}
\* the two account ids of the driver
Accounts == {1, 2}
\* the driver's second bucket: RequestTokenBucket(5, 10)
BucketTwoMaxTokens == 5
BucketTwoRefillRate == 10
\* the thread and the account of the sequential driver
SeqThread == "thread1"
SeqAccount == 1
\* the account of rateLimiter.addAccount(2, RequestTokenBucket(5, 10))
BucketTwoAccount == 2
\* simulateRequests: end_time = time.time() + 60, time.sleep(3)
SimulateSeconds == 60
SleepSeconds == 3

\* Python's None, for an optional value kept as a sequence of length <= 1
None == <<>>
Some(x) == <<x>>
Value(opt) == opt[1]

----------------------------------------------------------------------------
(* Pure functions *)

\* Python's round() on a float with no ndigits, for x = halves / 2:
\* to the nearest integer, a tie to the even one.
Round(halves) ==
    IF halves % 2 = 0 THEN halves \div 2
    ELSE IF ((halves - 1) \div 2) % 2 = 0 THEN (halves - 1) \div 2
         ELSE (halves + 1) \div 2

\* RequestTokenBucket.__getCurrentTimeInSeconds: int(round(time.time()))
GetCurrentTimeInSeconds(w) == Round(w)

\* Python's a // b on ints (floor division), b # 0
FloorDiv(a, b) == IF b > 0 THEN a \div b ELSE (0 - a) \div (0 - b)

Min(a, b) == IF a <= b THEN a ELSE b

\* RequestTokenBucket.__init__
NewBucket(maxTokens, refillRate) ==
    [maxTokens |-> maxTokens,
     refillRate |-> refillRate,
     lastRequestTimestamp |-> None,
     currentCount |-> maxTokens,
     locked |-> FALSE]

\* RequestTokenBucket.__timeSinceLastRequest, at clock reading now
TimeSinceLastRequest(b, now) == now - Value(b.lastRequestTimestamp)

\* calculateCurrentTokens without the min(): the count is not capped
CalculateUncapped(b, now) ==
    IF b.lastRequestTimestamp = None
    THEN b.currentCount
    ELSE b.currentCount + FloorDiv(TimeSinceLastRequest(b, now), b.refillRate)

\* calculateCurrentTokens that counts a started interval as a whole one
CalculateRoundingUp(b, now) ==
    IF b.lastRequestTimestamp = None
    THEN b.currentCount
    ELSE Min(b.maxTokens,
             b.currentCount
               + FloorDiv(TimeSinceLastRequest(b, now) + b.refillRate - 1,
                          b.refillRate))

\* RequestTokenBucket.calculateCurrentTokens: the new currentCount
\* (called only where no ZeroDivisionError is raised)
CalculateCurrentTokens(b, now) ==
    IF b.lastRequestTimestamp = None
    THEN b.currentCount
    ELSE Min(b.maxTokens,
             b.currentCount + FloorDiv(TimeSinceLastRequest(b, now), b.refillRate))

\* whether calculateCurrentTokens raises ZeroDivisionError
CalculateRaises(b) == b.lastRequestTimestamp # None /\ b.refillRate = 0

----------------------------------------------------------------------------
(* Initial state: rateLimiter = TokenBucketRateLimiter(), no call made yet *)

Params == (0 - MaxParam) .. MaxParam

\* maxTokensInput = int(input(...)); refillRateInput = int(input(...))
Init ==
    /\ wall = 0
    /\ input \in [maxTokens : Params, refillRate : Params]
    /\ ratelimiterDict = << >>
    /\ buckets = << >>
    /\ pc = [t \in Procs |-> "idle"]
    /\ accountID = [t \in Procs |-> 0]
    /\ tokenBucket = [t \in Procs |-> 0]
    /\ event = None
    /\ observed = None
    /\ schedule = << >>
    /\ history = << >>
    /\ loop = << >>

----------------------------------------------------------------------------
(* The events a step hands to its caller *)

Returned(t, a, outcome) ==
    Some([op |-> "allowRequestToService", thread |-> t, account |-> a,
          outcome |-> outcome])

Removed(a, outcome) ==
    Some([op |-> "removeAccount", account |-> a, outcome |-> outcome])

\* one print() of printBucketSummary: the attribute and what "{}".format
\* shows of it, Some(n) for a number and None for None
Printed(a, attribute, shown) ==
    Some([op |-> "printBucketSummary", account |-> a,
          attribute |-> attribute, shown |-> shown])

----------------------------------------------------------------------------
(* The clock: time.time() only moves forward *)

Tick ==
    /\ wall < MaxWall
    /\ wall' = wall + 1
    /\ event' = None
    /\ UNCHANGED <<input, ratelimiterDict, buckets, pc, accountID, tokenBucket>>

----------------------------------------------------------------------------
(* RequestTokenBucket(maxTokens, refillRate): a new object on the heap *)

Construct(maxTokens, refillRate) ==
    buckets' = Append(buckets, NewBucket(maxTokens, refillRate))

\* addAccount as self.ratelimiterDict.setdefault(a, bucket): an account that
\* has a bucket keeps it
AddAccountKeeping(a, requestTokenBucket) ==
    /\ ratelimiterDict' =
          [k \in (DOMAIN ratelimiterDict) \cup {a} |->
              IF k \in DOMAIN ratelimiterDict THEN ratelimiterDict[k]
              ELSE requestTokenBucket]
    /\ event' = None
    /\ UNCHANGED <<wall, input, pc, accountID, tokenBucket>>

(* TokenBucketRateLimiter.addAccount(a, requestTokenBucket):                 *)
(* self.ratelimiterDict[a] = requestTokenBucket, a reference to any bucket  *)

AddAccount(a, requestTokenBucket) ==
    /\ ratelimiterDict' =
          [k \in (DOMAIN ratelimiterDict) \cup {a} |->
              IF k = a THEN requestTokenBucket ELSE ratelimiterDict[k]]
    /\ event' = None
    /\ UNCHANGED <<wall, input, pc, accountID, tokenBucket>>

\* removeAccount as self.ratelimiterDict.pop(a, None): no KeyError
RemoveAccountSilent(a) ==
    /\ ratelimiterDict' =
          [k \in (DOMAIN ratelimiterDict) \ {a} |-> ratelimiterDict[k]]
    /\ event' = Removed(a, "ok")
    /\ UNCHANGED <<wall, input, buckets, pc, accountID, tokenBucket>>

(* TokenBucketRateLimiter.removeAccount(a): del self.ratelimiterDict[a] *)

RemoveAccount(a) ==
    /\ IF a \in DOMAIN ratelimiterDict
       THEN /\ ratelimiterDict' =
                  [k \in (DOMAIN ratelimiterDict) \ {a} |-> ratelimiterDict[k]]
            /\ event' = Removed(a, "ok")
       ELSE /\ ratelimiterDict' = ratelimiterDict
            /\ event' = Removed(a, "KeyError")
    /\ UNCHANGED <<wall, input, buckets, pc, accountID, tokenBucket>>

(* rateLimiter.ratelimiterDict[a].printBucketSummary(), run by the main      *)
(* thread: four print() calls, each reading one attribute, no lock taken     *)

\* the bucket is looked up and the method entered
PrintBucketSummary(a) ==
    /\ pc[MainThread] = "idle"
    /\ a \in DOMAIN ratelimiterDict
    /\ pc' = [pc EXCEPT ![MainThread] = "print86"]
    /\ accountID' = [accountID EXCEPT ![MainThread] = a]
    /\ tokenBucket' = [tokenBucket EXCEPT ![MainThread] = ratelimiterDict[a]]
    /\ event' = None
    /\ UNCHANGED <<wall, input, ratelimiterDict, buckets>>

\* print("Max Token Capacity: {}".format(self.maxTokens))
PrintMaxTokens ==
    /\ pc[MainThread] = "print86"
    /\ pc' = [pc EXCEPT ![MainThread] = "print87"]
    /\ event' = Printed(accountID[MainThread], "maxTokens",
                        Some(buckets[tokenBucket[MainThread]].maxTokens))
    /\ UNCHANGED <<wall, input, ratelimiterDict, buckets, accountID, tokenBucket>>

\* print("Refill Rate: {}".format(self.refillRate))
PrintRefillRate ==
    /\ pc[MainThread] = "print87"
    /\ pc' = [pc EXCEPT ![MainThread] = "print88"]
    /\ event' = Printed(accountID[MainThread], "refillRate",
                        Some(buckets[tokenBucket[MainThread]].refillRate))
    /\ UNCHANGED <<wall, input, ratelimiterDict, buckets, accountID, tokenBucket>>

\* the print of the count after a calculateCurrentTokens of the bucket
PrintCurrentCountRefilling ==
    /\ pc[MainThread] = "print88"
    /\ pc' = [pc EXCEPT ![MainThread] = "print89"]
    /\ LET r == tokenBucket[MainThread]
           b == buckets[r]
       IN  buckets' = [buckets EXCEPT ![r].currentCount =
                          IF CalculateRaises(b) THEN @
                          ELSE CalculateCurrentTokens(b, GetCurrentTimeInSeconds(wall))]
    /\ event' = Printed(accountID[MainThread], "currentCount",
                        Some(buckets'[tokenBucket[MainThread]].currentCount))
    /\ UNCHANGED <<wall, input, ratelimiterDict, accountID, tokenBucket>>

\* print("Current Token Count: {}".format(self.currentCount))
PrintCurrentCount ==
    /\ pc[MainThread] = "print88"
    /\ pc' = [pc EXCEPT ![MainThread] = "print89"]
    /\ event' = Printed(accountID[MainThread], "currentCount",
                        Some(buckets[tokenBucket[MainThread]].currentCount))
    /\ UNCHANGED <<wall, input, ratelimiterDict, buckets, accountID, tokenBucket>>

\* print("Last Request Time: {}".format(self.lastRequestTimestamp)); return
PrintLastRequestTime ==
    /\ pc[MainThread] = "print89"
    /\ pc' = [pc EXCEPT ![MainThread] = "idle"]
    /\ accountID' = [accountID EXCEPT ![MainThread] = 0]
    /\ tokenBucket' = [tokenBucket EXCEPT ![MainThread] = 0]
    /\ event' = Printed(accountID[MainThread], "lastRequestTimestamp",
                        buckets[tokenBucket[MainThread]].lastRequestTimestamp)
    /\ UNCHANGED <<wall, input, ratelimiterDict, buckets>>

\* one print of a summary in progress
PrintStep ==
    PrintMaxTokens \/ PrintRefillRate \/ PrintCurrentCount \/ PrintLastRequestTime

----------------------------------------------------------------------------
(* TokenBucketRateLimiter.allowRequestToService(a), run by thread t *)

\* a lookup that creates the bucket of an unknown account (a defaultdict)
LookupCreating(t, a) ==
    /\ pc[t] = "idle"
    /\ IF a \in DOMAIN ratelimiterDict
       THEN UNCHANGED <<ratelimiterDict, buckets>>
       ELSE /\ buckets' = Append(buckets, NewBucket(input.maxTokens, input.refillRate))
            /\ ratelimiterDict' =
                  [k \in (DOMAIN ratelimiterDict) \cup {a} |->
                      IF k = a THEN Len(buckets) + 1 ELSE ratelimiterDict[k]]
    /\ tokenBucket' = [tokenBucket EXCEPT ![t] = ratelimiterDict'[a]]
    /\ accountID' = [accountID EXCEPT ![t] = a]
    /\ pc' = [pc EXCEPT ![t] = "acquire"]
    /\ event' = None
    /\ UNCHANGED <<wall, input>>

\* tokenBucket = self.ratelimiterDict[accountID]; KeyError when absent
Lookup(t, a) ==
    /\ pc[t] = "idle"
    /\ IF a \in DOMAIN ratelimiterDict
       THEN /\ tokenBucket' = [tokenBucket EXCEPT ![t] = ratelimiterDict[a]]
            /\ accountID' = [accountID EXCEPT ![t] = a]
            /\ pc' = [pc EXCEPT ![t] = "acquire"]
            /\ event' = None
       ELSE /\ UNCHANGED <<tokenBucket, accountID, pc>>
            /\ event' = Returned(t, a, "KeyError")
    /\ UNCHANGED <<wall, input, ratelimiterDict, buckets>>

\* entering the block without waiting for the lock
AcquireUnguarded(t) ==
    /\ pc[t] = "acquire"
    /\ buckets' = [buckets EXCEPT ![tokenBucket[t]].locked = TRUE]
    /\ pc' = [pc EXCEPT ![t] = "calculate"]
    /\ event' = None
    /\ UNCHANGED <<wall, input, ratelimiterDict, accountID, tokenBucket>>

\* one lock for all the buckets: the block is entered only when no bucket
\* is locked
AcquireGlobal(t) ==
    /\ pc[t] = "acquire"
    /\ \A r \in DOMAIN buckets : ~buckets[r].locked
    /\ buckets' = [buckets EXCEPT ![tokenBucket[t]].locked = TRUE]
    /\ pc' = [pc EXCEPT ![t] = "calculate"]
    /\ event' = None
    /\ UNCHANGED <<wall, input, ratelimiterDict, accountID, tokenBucket>>

\* with tokenBucket.lock: blocks until the lock is free, then takes it
Acquire(t) ==
    /\ pc[t] = "acquire"
    /\ ~buckets[tokenBucket[t]].locked
    /\ buckets' = [buckets EXCEPT ![tokenBucket[t]].locked = TRUE]
    /\ pc' = [pc EXCEPT ![t] = "calculate"]
    /\ event' = None
    /\ UNCHANGED <<wall, input, ratelimiterDict, accountID, tokenBucket>>

\* the end of a call: the with block releases the lock, the locals die
Leave(t, outcome) ==
    /\ pc' = [pc EXCEPT ![t] = "idle"]
    /\ accountID' = [accountID EXCEPT ![t] = 0]
    /\ tokenBucket' = [tokenBucket EXCEPT ![t] = 0]
    /\ event' = Returned(t, accountID[t], outcome)

\* the call with the timestamp written on every call, the rejected ones too
CalculateStamping(t) ==
    /\ pc[t] = "calculate"
    /\ LET r   == tokenBucket[t]
           b   == buckets[r]
           now == GetCurrentTimeInSeconds(wall)
       IN  IF CalculateRaises(b)
           THEN /\ buckets' = [buckets EXCEPT ![r].locked = FALSE]
                /\ Leave(t, "ZeroDivisionError")
           ELSE IF CalculateCurrentTokens(b, now) > 0
           THEN /\ buckets' = [buckets EXCEPT ![r].currentCount =
                                  CalculateCurrentTokens(b, now)]
                /\ pc' = [pc EXCEPT ![t] = "stamp"]
                /\ event' = None
                /\ UNCHANGED <<accountID, tokenBucket>>
           ELSE /\ buckets' = [buckets EXCEPT
                                  ![r].currentCount = CalculateCurrentTokens(b, now),
                                  ![r].lastRequestTimestamp = Some(now),
                                  ![r].locked = FALSE]
                /\ Leave(t, "False")
    /\ UNCHANGED <<wall, input, ratelimiterDict>>

\* tokenBucket.calculateCurrentTokens(), then if tokenBucket.currentCount > 0.
\* A ZeroDivisionError leaves the with block; so does the else branch, and
\* return False follows it.
Calculate(t) ==
    /\ pc[t] = "calculate"
    /\ LET r   == tokenBucket[t]
           b   == buckets[r]
           now == GetCurrentTimeInSeconds(wall)
       IN  IF CalculateRaises(b)
           THEN /\ buckets' = [buckets EXCEPT ![r].locked = FALSE]
                /\ Leave(t, "ZeroDivisionError")
           ELSE IF CalculateCurrentTokens(b, now) > 0
           THEN /\ buckets' = [buckets EXCEPT ![r].currentCount =
                                  CalculateCurrentTokens(b, now)]
                /\ pc' = [pc EXCEPT ![t] = "stamp"]
                /\ event' = None
                /\ UNCHANGED <<accountID, tokenBucket>>
           ELSE /\ buckets' = [buckets EXCEPT
                                  ![r].currentCount = CalculateCurrentTokens(b, now),
                                  ![r].locked = FALSE]
                /\ Leave(t, "False")
    /\ UNCHANGED <<wall, input, ratelimiterDict>>

\* the call without the statement of line 212: no timestamp is written
StampMissing(t) ==
    /\ pc[t] = "stamp"
    /\ buckets' = buckets
    /\ pc' = [pc EXCEPT ![t] = "decrement"]
    /\ event' = None
    /\ UNCHANGED <<wall, input, ratelimiterDict, accountID, tokenBucket>>

\* tokenBucket.lastRequestTimestamp = int(round(time.time()))
Stamp(t) ==
    /\ pc[t] = "stamp"
    /\ buckets' = [buckets EXCEPT ![tokenBucket[t]].lastRequestTimestamp =
                      Some(GetCurrentTimeInSeconds(wall))]
    /\ pc' = [pc EXCEPT ![t] = "decrement"]
    /\ event' = None
    /\ UNCHANGED <<wall, input, ratelimiterDict, accountID, tokenBucket>>

\* tokenBucket.currentCount -= 1; return True (leaving the with block)
Decrement(t) ==
    /\ pc[t] = "decrement"
    /\ buckets' = [buckets EXCEPT
                      ![tokenBucket[t]].currentCount = @ - 1,
                      ![tokenBucket[t]].locked = FALSE]
    /\ Leave(t, "True")
    /\ UNCHANGED <<wall, input, ratelimiterDict>>

\* one statement of a call in progress
Step(t) == Acquire(t) \/ Calculate(t) \/ Stamp(t) \/ Decrement(t)

----------------------------------------------------------------------------
(* The concurrent system: any thread calls any account at any time, and     *)
(* the driver registers and removes accounts.                               *)

Untraced == UNCHANGED <<observed, schedule, history, loop>>

Clock == Tick /\ Untraced

\* the count of the bucket of account a is within the bound MaxDebt
InDebtBound(a) ==
    a \in DOMAIN ratelimiterDict =>
        buckets[ratelimiterDict[a]].currentCount + MaxDebt > 0

Call(t) == (\E a \in Accounts : InDebtBound(a) /\ Lookup(t, a)) /\ Untraced

Run(t) == Step(t) /\ Untraced

\* the buckets constructed as RequestTokenBucket(5, 10)
BucketsTwo ==
    {r \in DOMAIN buckets :
        /\ buckets[r].maxTokens = BucketTwoMaxTokens
        /\ buckets[r].refillRate = BucketTwoRefillRate}

\* addAccount with a bucket constructed in the same statement, as at both
\* call sites of the program: from the values read, as at line 244, or
\* RequestTokenBucket(5, 10) for account 2, as at line 249
Register ==
    /\ Len(buckets) < MaxBuckets
    /\ \/ \E a \in Accounts :
             /\ Construct(input.maxTokens, input.refillRate)
             /\ AddAccount(a, Len(buckets) + 1)
       \/ /\ Cardinality(BucketsTwo) < MaxBucketsTwo
          /\ Construct(BucketTwoMaxTokens, BucketTwoRefillRate)
          /\ AddAccount(BucketTwoAccount, Len(buckets) + 1)
    /\ Untraced

Deregister == (\E a \in Accounts : RemoveAccount(a)) /\ Untraced

Next ==
    \/ Clock
    \/ Register
    \/ Deregister
    \/ \E t \in Threads : Call(t)
    \/ \E t \in Threads : Run(t)

Spec == Init /\ [][Next]_vars

----------------------------------------------------------------------------
(* The sequential driver: one thread calls allowRequestToService on one     *)
(* account, at the instants of a schedule; each finished call is recorded.  *)

\* the schedules: SeqCalls instants in 0 .. SeqMaxTime, in order; and the
\* instants of the scenario for a RequestTokenBucket(5, 10)
Schedules ==
    {s \in [1 .. SeqCalls -> 0 .. SeqMaxTime] :
        \A i \in 1 .. SeqCalls - 1 : s[i] <= s[i + 1]}

ScenarioSchedule == <<0, 0, 0, 0, 0, 9, 11>>

\* the values read for the bucket, as int(input()) gives them: any integer,
\* zero and negative ones included, from MaxParam below zero up to the bounds
SeqInputs ==
    ([maxTokens : (0 - MaxParam) .. SeqMaxTokens,
      refillRate : (0 - MaxParam) .. SeqMaxRate] \X Schedules)
    \cup {<<[maxTokens |-> BucketTwoMaxTokens, refillRate |-> BucketTwoRefillRate],
            ScenarioSchedule>>}

\* rateLimiter.addAccount(SeqAccount, RequestTokenBucket(maxTokens, refillRate))
InitSeq ==
    /\ \E i \in SeqInputs : input = i[1] /\ schedule = i[2]
    /\ wall = 0
    /\ buckets = <<NewBucket(input.maxTokens, input.refillRate)>>
    /\ ratelimiterDict = [a \in {SeqAccount} |-> 1]
    /\ pc = [t \in Procs |-> "idle"]
    /\ accountID = [t \in Procs |-> 0]
    /\ tokenBucket = [t \in Procs |-> 0]
    /\ event = None
    /\ observed = None
    /\ history = << >>
    /\ loop = << >>

\* calls started so far
SeqStarted == Len(history) + (IF pc[SeqThread] = "idle" THEN 0 ELSE 1)

\* the clock runs up to the instant of the next call to make
SeqClock ==
    /\ SeqStarted < Len(schedule)
    /\ GetCurrentTimeInSeconds(wall + 1) <= schedule[SeqStarted + 1]
    /\ wall' = wall + 1
    /\ event' = None
    /\ UNCHANGED <<input, ratelimiterDict, buckets, pc, accountID, tokenBucket,
                   observed, schedule, history, loop>>

SeqCall ==
    /\ SeqStarted < Len(schedule)
    /\ GetCurrentTimeInSeconds(wall) = schedule[SeqStarted + 1]
    /\ Lookup(SeqThread, SeqAccount)
    /\ UNCHANGED <<observed, schedule, history, loop>>

\* what calculateCurrentTokens reads when it runs in this state: the bucket's
\* lastRequestTimestamp and currentCount, and the clock only when there is a
\* lastRequestTimestamp (it returns before __timeSinceLastRequest otherwise)
Reading ==
    LET b == buckets[tokenBucket[SeqThread]]
    IN  [now   |-> IF b.lastRequestTimestamp = None THEN None
                   ELSE Some(GetCurrentTimeInSeconds(wall)),
         count |-> b.currentCount,
         last  |-> b.lastRequestTimestamp]

\* a statement of the call, and the record of the call when it ends
SeqRun ==
    /\ Step(SeqThread)
    /\ LET seen == IF pc[SeqThread] = "calculate" THEN Reading ELSE Value(observed)
       IN  IF event' = None
           THEN /\ observed' = IF pc[SeqThread] = "calculate"
                               THEN Some(Reading) ELSE observed
                /\ history' = history
           ELSE /\ observed' = None
                /\ history' = Append(history,
                      [now     |-> seen.now,
                       count   |-> seen.count,
                       last    |-> seen.last,
                       outcome |-> Value(event').outcome,
                       left    |-> buckets'[1].currentCount,
                       stamp   |-> buckets'[1].lastRequestTimestamp])
    /\ UNCHANGED <<schedule, loop>>

NextSeq == SeqClock \/ SeqCall \/ SeqRun

SpecSeq == InitSeq /\ [][NextSeq]_vars

----------------------------------------------------------------------------
(* The stress driver: the threads make StressCalls calls in all on one       *)
(* account whose bucket holds one token, and no refill interval elapses.     *)

\* the buckets that hold one token: a new one of capacity 1, or one of a
\* larger capacity whose last request, at instant 0, left one token
StressBuckets ==
    {NewBucket(1, r) : r \in 1 .. StressMaxRate}
    \cup {[NewBucket(m, r) EXCEPT !.currentCount = 1,
                                  !.lastRequestTimestamp = Some(0)] :
             m \in 2 .. StressMaxTokens, r \in 1 .. StressMaxRate}

InitStress ==
    /\ \E b \in StressBuckets :
          /\ buckets = <<b>>
          /\ input = [maxTokens |-> b.maxTokens, refillRate |-> b.refillRate]
    /\ wall = 0
    /\ schedule = << >>
    /\ ratelimiterDict = [a \in {SeqAccount} |-> 1]
    /\ pc = [t \in Procs |-> "idle"]
    /\ accountID = [t \in Procs |-> 0]
    /\ tokenBucket = [t \in Procs |-> 0]
    /\ event = None
    /\ observed = None
    /\ history = << >>
    /\ loop = << >>

\* calls in progress
InCall == {t \in Threads : pc[t] # "idle"}

\* the clock stays within one refill interval of instant 0
StressClock ==
    /\ GetCurrentTimeInSeconds(wall + 1) < input.refillRate
    /\ wall' = wall + 1
    /\ event' = None
    /\ UNCHANGED <<input, ratelimiterDict, buckets, pc, accountID, tokenBucket,
                   observed, schedule, history, loop>>

StressCall(t) ==
    /\ Len(history) + Cardinality(InCall) < StressCalls
    /\ Lookup(t, SeqAccount)
    /\ UNCHANGED <<observed, schedule, history, loop>>

\* a statement of a call; the record of the call when it ends: its outcome
\* and the number of other calls then in progress
StressRun(t) ==
    /\ Step(t)
    /\ history' = IF event' = None THEN history
                  ELSE Append(history,
                          [outcome |-> Value(event').outcome,
                           others  |-> Cardinality(InCall \ {t})])
    /\ UNCHANGED <<observed, schedule, loop>>

NextStress ==
    \/ StressClock
    \/ \E t \in Threads : StressCall(t)
    \/ \E t \in Threads : StressRun(t)

SpecStress == InitStress /\ [][NextStress]_vars

----------------------------------------------------------------------------
(* The rate driver: the threads make RateCalls calls in all on one account  *)
(* with a new bucket, while the clock runs; each finished call is recorded.  *)

\* rateLimiter.addAccount(SeqAccount, RequestTokenBucket(maxTokens, refillRate)),
\* the values as int(input()) gives them, zero and negative ones included
InitRate ==
    /\ input \in [maxTokens : (0 - MaxParam) .. RateMaxTokens,
                  refillRate : (0 - MaxParam) .. RateMaxRate]
    /\ buckets = <<NewBucket(input.maxTokens, input.refillRate)>>
    /\ wall = 0
    /\ schedule = << >>
    /\ ratelimiterDict = [a \in {SeqAccount} |-> 1]
    /\ pc = [t \in Procs |-> "idle"]
    /\ accountID = [t \in Procs |-> 0]
    /\ tokenBucket = [t \in Procs |-> 0]
    /\ event = None
    /\ observed = None
    /\ history = << >>
    /\ loop = << >>

RateCall(t) ==
    /\ Len(history) + Cardinality(InCall) < RateCalls
    /\ Lookup(t, SeqAccount)
    /\ UNCHANGED <<observed, schedule, history, loop>>

\* a statement of a call; the record of the call when it ends: its outcome
\* and the lastRequestTimestamp of the bucket when the call leaves it
RateRun(t) ==
    /\ Step(t)
    /\ history' = IF event' = None THEN history
                  ELSE Append(history,
                          [outcome |-> Value(event').outcome,
                           stamp   |-> buckets'[1].lastRequestTimestamp])
    /\ UNCHANGED <<observed, schedule, loop>>

NextRate ==
    \/ Clock
    \/ \E t \in Threads : RateCall(t)
    \/ \E t \in Threads : RateRun(t)

SpecRate == InitRate /\ [][NextRate]_vars

----------------------------------------------------------------------------
(* The looping driver: thread1 and thread2 run simulateRequests, statement   *)
(* by statement, on the two buckets of the program, while the clock runs.    *)
(* Kept of account 1: the timestamp of the last admission, whether a call   *)
(* was rejected since, at a later instant, and whether that was so when the  *)
(* last admission came.                                                      *)

\* rateLimiter.addAccount(1, RequestTokenBucket(maxTokensInput, refillRateInput))
\* and rateLimiter.addAccount(2, RequestTokenBucket(5, 10)) have run, the
\* threads are started and neither has run a statement yet
InitLive ==
    /\ input \in [maxTokens : 1 .. LiveMaxTokens, refillRate : 1 .. LiveMaxRate]
    /\ buckets = <<NewBucket(input.maxTokens, input.refillRate),
                   NewBucket(BucketTwoMaxTokens, BucketTwoRefillRate)>>
    /\ wall = 0
    /\ schedule = << >>
    /\ ratelimiterDict = [a \in {SeqAccount, BucketTwoAccount} |->
                             IF a = SeqAccount THEN 1 ELSE 2]
    /\ pc = [t \in Procs |-> "idle"]
    /\ accountID = [t \in Procs |-> 0]
    /\ tokenBucket = [t \in Procs |-> 0]
    /\ event = None
    /\ observed = [admitted |-> None, rejected |-> FALSE, between |-> FALSE]
    /\ history = << >>
    /\ loop = [t \in Threads |-> [at |-> "line233", end_time |-> 0, wake |-> 0]]

\* the clock of the looping driver
LiveClock ==
    /\ wall < LiveMaxWall
    /\ wall' = wall + 1
    /\ event' = None
    /\ UNCHANGED <<input, ratelimiterDict, buckets, pc, accountID, tokenBucket,
                   observed, schedule, history, loop>>

\* a statement of simulateRequests outside the calls: only the frame changes
LiveFrame ==
    /\ event' = None
    /\ UNCHANGED <<wall, input, ratelimiterDict, buckets, pc, accountID,
                   tokenBucket, observed, schedule, history>>

\* end_time = time.time() + 60
LiveStart(t) ==
    /\ loop[t].at = "line233"
    /\ loop' = [loop EXCEPT ![t].at = "line234",
                            ![t].end_time = wall + 2 * SimulateSeconds]
    /\ LiveFrame

\* while time.time() < end_time: into the body, or out of the loop, where
\* simulateRequests returns
LiveTest(t) ==
    /\ loop[t].at = "line234"
    /\ loop' = [loop EXCEPT ![t].at = IF wall < loop[t].end_time
                                      THEN "line235" ELSE "returned"]
    /\ LiveFrame

\* the account of the call at the line of the loop the thread is at
LiveAccount(t) == IF loop[t].at = "line235" THEN SeqAccount ELSE BucketTwoAccount

\* rateLimiter.allowRequestToService(1) at line 235, (2) at line 236: the
\* call begins; a KeyError ends simulateRequests
LiveCall(t) ==
    /\ loop[t].at \in {"line235", "line236"}
    /\ Lookup(t, LiveAccount(t))
    /\ loop' = IF event' = None THEN loop
               ELSE [loop EXCEPT ![t].at = "returned"]
    /\ UNCHANGED <<observed, schedule, history>>

\* a statement of the call in progress; when it returns the loop goes on to
\* its next line, and an exception ends simulateRequests
LiveRun(t) ==
    /\ Step(t)
    /\ loop' = IF event' = None THEN loop
               ELSE IF Value(event').outcome \in {"True", "False"}
               THEN [loop EXCEPT ![t].at = IF LiveAccount(t) = SeqAccount
                                           THEN "line236" ELSE "line237"]
               ELSE [loop EXCEPT ![t].at = "returned"]
    /\ observed' =
          IF event' = Returned(t, SeqAccount, "True")
          THEN [admitted |-> buckets'[1].lastRequestTimestamp,
                rejected |-> FALSE,
                between  |-> observed.rejected]
          ELSE IF event' = Returned(t, SeqAccount, "False")
                  /\ observed.admitted # None
                  /\ GetCurrentTimeInSeconds(wall) > Value(observed.admitted)
          THEN [observed EXCEPT !.rejected = TRUE]
          ELSE observed
    /\ UNCHANGED <<schedule, history>>

\* time.sleep(3) is called
LiveSleep(t) ==
    /\ loop[t].at = "line237"
    /\ loop' = [loop EXCEPT ![t].at = "asleep",
                            ![t].wake = wall + 2 * SleepSeconds]
    /\ LiveFrame

\* time.sleep(3) returns, no sooner than 3 seconds after it was called
LiveWake(t) ==
    /\ loop[t].at = "asleep"
    /\ wall >= loop[t].wake
    /\ loop' = [loop EXCEPT ![t].at = "line234", ![t].wake = 0]
    /\ LiveFrame

\* the next statement of thread t
LiveThread(t) ==
    \/ LiveStart(t)
    \/ LiveTest(t)
    \/ LiveCall(t)
    \/ LiveRun(t)
    \/ LiveSleep(t)
    \/ LiveWake(t)

NextLive ==
    \/ LiveClock
    \/ \E t \in Threads : LiveStart(t)
    \/ \E t \in Threads : LiveTest(t)
    \/ \E t \in Threads : LiveCall(t)
    \/ \E t \in Threads : LiveRun(t)
    \/ \E t \in Threads : LiveSleep(t)
    \/ \E t \in Threads : LiveWake(t)

\* the clock advances, and a thread that can run its next statement is
\* eventually scheduled
LiveFairness ==
    /\ WF_vars(LiveClock)
    /\ \A t \in Threads : WF_vars(LiveThread(t))

SpecLive == InitLive /\ [][NextLive]_vars /\ LiveFairness

----------------------------------------------------------------------------
(* The summary driver: the main thread prints summaries of the bucket of     *)
(* one account while both threads call allowRequestToService on it and the   *)
(* clock runs.                                                               *)

SummaryCall == PrintBucketSummary(SeqAccount) /\ Untraced

SummaryPrint == PrintStep /\ Untraced

\* a thread begins a call on the account
SummaryThread(t) == InDebtBound(SeqAccount) /\ Lookup(t, SeqAccount) /\ Untraced

NextSummary ==
    \/ Clock
    \/ SummaryCall
    \/ SummaryPrint
    \/ \E t \in Threads : SummaryThread(t)
    \/ \E t \in Threads : Run(t)

SpecSummary == InitRate /\ [][NextSummary]_vars

----------------------------------------------------------------------------
(* Properties *)

Valid(b) == b.maxTokens > 0 /\ b.refillRate > 0

\* the threads that hold the lock of their bucket
InCritical(t) == pc[t] \in {"calculate", "stamp", "decrement"}

IsReturn(e, t) ==
    e # None /\ Value(e).op = "allowRequestToService" /\ Value(e).thread = t

\* C1: a bucket constructed with positive maxTokens and refillRate has
\* 0 <= currentCount <= maxTokens in every reachable state, the states inside
\* a running allowRequestToService included, whatever time has elapsed.
C1_TokensInRange ==
    \A r \in DOMAIN buckets :
        Valid(buckets[r]) =>
            /\ 0 <= buckets[r].currentCount
            /\ buckets[r].currentCount <= buckets[r].maxTokens

\* a call that has just refilled, at least two refill intervals after the
\* last request: the sum is above maxTokens and the count is capped
C1_Witness ==
    \E t \in Threads :
        /\ pc[t] = "stamp"
        /\ LET b == buckets[tokenBucket[t]]
           IN  /\ Valid(b)
               /\ b.lastRequestTimestamp # None
               /\ GetCurrentTimeInSeconds(wall) - Value(b.lastRequestTimestamp)
                     >= 2 * b.refillRate * b.maxTokens
               /\ b.currentCount = b.maxTokens

\* the calls of the history that returned True
Wins == {i \in DOMAIN history : history[i].outcome = "True"}

\* the calls in progress that have found a token and will return True
Committed == {t \in Threads : pc[t] \in {"stamp", "decrement"}}

\* C2: of the concurrent calls on an account whose bucket holds one token,
\* with no refill interval elapsing, one returns True and the others False,
\* under every interleaving; never two successes.
C2_OneWinner ==
    /\ Cardinality(Wins) + Cardinality(Committed) <= 1
    /\ \A i \in DOMAIN history : history[i].outcome \in {"True", "False"}
    /\ (history # << >> /\ InCall = {}) => Cardinality(Wins) = 1

\* all the calls are over; the one that returned True ended while another
\* call was in progress, which then returned False
C2_Witness ==
    /\ Len(history) = StressCalls
    /\ InCall = {}
    /\ \E i \in Wins : history[i].others > 0
    /\ \E i \in DOMAIN history : history[i].outcome = "False"

\* C3: at most one thread is between acquiring and releasing the lock of a
\* bucket, the lock is held while it is there, and no step of another thread
\* changes currentCount or lastRequestTimestamp of that bucket meanwhile.
C3_Exclusive ==
    \A t \in Threads :
        InCritical(t) =>
            /\ buckets[tokenBucket[t]].locked
            /\ \A u \in Threads \ {t} :
                  InCritical(u) => tokenBucket[u] # tokenBucket[t]

C3_NoInterference ==
    \A t \in Threads :
        (InCritical(t) /\ pc'[t] = pc[t]) =>
            /\ buckets'[tokenBucket[t]].currentCount
                  = buckets[tokenBucket[t]].currentCount
            /\ buckets'[tokenBucket[t]].lastRequestTimestamp
                  = buckets[tokenBucket[t]].lastRequestTimestamp

\* C3: in every state the lock excludes a second thread, and in every step
\* the bucket of a thread inside the block is changed by that thread only.
C3_AtomicAdmit == [](C3_Exclusive) /\ [][C3_NoInterference]_vars

\* one thread has refilled and is about to consume, another waits for the
\* lock of the same bucket
C3_Witness ==
    \E t, u \in Threads :
        /\ pc[t] = "stamp"
        /\ pc[u] = "acquire"
        /\ tokenBucket[u] = tokenBucket[t]

\* the clock readings of a recorded call: that of calculateCurrentTokens, if
\* it took one, and that of line 212, if the call returned True
Readings(h) ==
    (IF h.now = None THEN {} ELSE {Value(h.now)})
    \cup (IF h.outcome = "True" THEN {Value(h.stamp)} ELSE {})

\* all the clock readings of all the recorded calls gave one instant
SameInstant ==
    \A i \in DOMAIN history, j \in DOMAIN history :
        \A x \in Readings(history[i]), y \in Readings(history[j]) : x = y

\* C4: of the calls made at one instant on a new bucket of capacity C >= 1,
\* the first C return True, the later ones False, and from the C-th call on
\* currentCount is 0.
C4_BurstOfCapacity ==
    (input.maxTokens >= 1 /\ SameInstant) =>
        \A i \in DOMAIN history :
            /\ history[i].outcome = (IF i <= input.maxTokens THEN "True" ELSE "False")
            /\ i >= input.maxTokens => history[i].left = 0

\* C5: after a call at instant t0 returned True and left no token, every
\* call that reads an instant t < t0 + refillRate returns False; a later call
\* returns True only at t >= t0 + refillRate.
C5_DrainedUntilRefill ==
    \A i, j \in DOMAIN history :
        (/\ i < j
         /\ history[i].outcome = "True"
         /\ history[i].left = 0
         /\ history[j].now # None
         /\ Value(history[j].now) < Value(history[i].stamp) + input.refillRate)
        => history[j].outcome = "False"

\* a call drained the bucket, the next one came before the interval was over
\* and was rejected, a third one came after it and was admitted
C5_Witness ==
    \E i, j, k \in DOMAIN history :
        /\ i < j /\ j < k
        /\ history[i].outcome = "True" /\ history[i].left = 0
        /\ history[j].now # None /\ history[k].now # None
        /\ Value(history[j].now) < Value(history[i].stamp) + input.refillRate
        /\ history[j].outcome = "False"
        /\ Value(history[k].now) >= Value(history[i].stamp) + input.refillRate
        /\ history[k].outcome = "True"

\* the count a call finds after the refill, from what it read (no call
\* that read a lastRequestTimestamp returns when refillRate is 0)
Refilled(h) ==
    IF h.last = None THEN h.count
    ELSE LET sum == h.count + FloorDiv(Value(h.now) - Value(h.last), input.refillRate)
         IN  IF sum < input.maxTokens THEN sum ELSE input.maxTokens

\* whether every clock reading of call i gave the instant the schedule
\* gives the call
AtInstant(i) == Readings(history[i]) \subseteq {schedule[i]}

ScenarioOutcomes == <<"True", "True", "True", "True", "True", "False", "True">>
ScenarioLeft == <<4, 3, 2, 1, 0, 0, 0>>

\* C6: a call that reads instant now on a bucket with currentCount c and
\* lastRequestTimestamp t returns True exactly when c' > 0, for c' = c when t
\* is None and min(maxTokens, c + (now - t) // refillRate) otherwise; True
\* leaves c' - 1 tokens, False leaves c' = 0.  For RequestTokenBucket(5, 10):
\* five calls at 0 return True and leave 0, one at 9 returns False, one at 11
\* returns True and leaves 0.
C6_AdmitDecision ==
    /\ \A i \in DOMAIN history :
          LET h == history[i]
          IN  /\ h.outcome \in {"True", "False"}
              /\ h.outcome = "True" <=> Refilled(h) > 0
              /\ h.outcome = "True" => h.left = Refilled(h) - 1
              /\ h.outcome = "False" => (h.left = Refilled(h) /\ h.left = 0)
    /\ (/\ input = [maxTokens |-> BucketTwoMaxTokens,
                    refillRate |-> BucketTwoRefillRate]
        /\ schedule = ScenarioSchedule
        /\ \A i \in DOMAIN history : AtInstant(i))
       => \A i \in DOMAIN history :
             /\ history[i].outcome = ScenarioOutcomes[i]
             /\ history[i].left = ScenarioLeft[i]

\* C7: allowRequestToService for an account that is not in the dictionary
\* ends in KeyError, never in a boolean, and changes neither the dictionary
\* nor a bucket; a call goes on to a bucket only for an account that is in it.
C7_NotFoundStep ==
    \A t \in Threads :
        /\ (pc[t] = "idle" /\ pc'[t] # "idle") =>
              /\ accountID'[t] \in DOMAIN ratelimiterDict
              /\ tokenBucket'[t] = ratelimiterDict[accountID'[t]]
        /\ (pc[t] = "idle" /\ IsReturn(event', t)) =>
              /\ Value(event').outcome = "KeyError"
              /\ Value(event').account \notin DOMAIN ratelimiterDict
              /\ ratelimiterDict' = ratelimiterDict
              /\ buckets' = buckets
              /\ pc' = pc

\* C7: every step of every behaviour is as C7_NotFoundStep says.
C7_NotFound == [][C7_NotFoundStep]_vars

\* a call for an unknown account has raised KeyError while another account
\* is registered
C7_Witness ==
    \E t \in Threads, a \in Accounts :
        /\ event = Returned(t, a, "KeyError")
        /\ a \notin DOMAIN ratelimiterDict
        /\ DOMAIN ratelimiterDict # {}

\* C8: removeAccount of an account in the dictionary removes that mapping
\* and no other; removeAccount of an absent account raises KeyError and
\* leaves the dictionary as it was.
C8_RemoveStep ==
    \A a \in Accounts :
        /\ event' = Removed(a, "ok") =>
              /\ a \in DOMAIN ratelimiterDict
              /\ DOMAIN ratelimiterDict' = (DOMAIN ratelimiterDict) \ {a}
              /\ \A k \in DOMAIN ratelimiterDict' :
                    ratelimiterDict'[k] = ratelimiterDict[k]
              /\ buckets' = buckets
        /\ event' = Removed(a, "KeyError") =>
              /\ a \notin DOMAIN ratelimiterDict
              /\ ratelimiterDict' = ratelimiterDict
              /\ buckets' = buckets
        /\ (a \in DOMAIN ratelimiterDict /\ a \notin DOMAIN ratelimiterDict') =>
              event' = Removed(a, "ok")

\* C8: every step of every behaviour is as C8_RemoveStep says.
C8_Remove == [][C8_RemoveStep]_vars

\* an account has been removed and the other account is still registered
C8_Witness ==
    \E a \in Accounts, k \in Accounts :
        /\ event = Removed(a, "ok")
        /\ k # a
        /\ k \in DOMAIN ratelimiterDict
        /\ a \notin DOMAIN ratelimiterDict

\* C9: no bucket with a non-positive maxTokens or refillRate exists.
C9_OnlyValidBuckets == \A r \in DOMAIN buckets : Valid(buckets[r])

\* the attribute of bucket b that a print shows
Attribute(b, attribute) ==
    CASE attribute = "maxTokens"    -> Some(b.maxTokens)
      [] attribute = "refillRate"   -> Some(b.refillRate)
      [] attribute = "currentCount" -> Some(b.currentCount)
      [] OTHER                      -> b.lastRequestTimestamp

\* C10, one step: a step of printBucketSummary changes no bucket and no
\* mapping, and a print shows the stored value of its attribute, without a
\* refill; time passing changes no bucket either, so the values printed stay
\* the same until a call changes the bucket.
C10_SummaryStep ==
    /\ pc'[MainThread] # pc[MainThread] =>
          /\ buckets' = buckets
          /\ ratelimiterDict' = ratelimiterDict
    /\ (event' # None /\ Value(event').op = "printBucketSummary") =>
          /\ pc'[MainThread] # pc[MainThread]
          /\ Value(event').shown =
                Attribute(buckets[tokenBucket[MainThread]], Value(event').attribute)
    /\ wall' # wall => buckets' = buckets

\* C10: printBucketSummary leaves the bucket unchanged and performs no
\* refill; every step of every behaviour is as C10_SummaryStep says.
C10_SummaryReadOnly == [][C10_SummaryStep]_vars

\* a summary, a whole refill interval after the last request, has just
\* printed the count the last request left
C10_Witness ==
    /\ event # None
    /\ Value(event).op = "printBucketSummary"
    /\ Value(event).attribute = "currentCount"
    /\ pc[MainThread] = "print89"
    /\ \A t \in Threads : pc[t] = "idle"
    /\ LET b == buckets[tokenBucket[MainThread]]
       IN  /\ b.lastRequestTimestamp # None
           /\ Value(event).shown = Some(b.currentCount)
           /\ b.currentCount < b.maxTokens
           /\ GetCurrentTimeInSeconds(wall) - Value(b.lastRequestTimestamp)
                 >= b.refillRate

----------------------------------------------------------------------------
\* the buckets that exist before and after a step (none is ever destroyed)
SameTimestamps ==
    \A r \in DOMAIN buckets :
        buckets'[r].lastRequestTimestamp = buckets[r].lastRequestTimestamp

\* C11, one step: lastRequestTimestamp of a bucket is written only by the
\* statement at line 212 of a call that has found a token, and that call
\* returns True; a call that returns False leaves the lastRequestTimestamp
\* and the currentCount of its bucket as they were, the count being 0; a
\* new bucket starts with no timestamp.
C11_StampStep ==
    /\ ~SameTimestamps =>
          \E t \in Threads :
              /\ pc[t] = "stamp" /\ pc'[t] = "decrement"
              /\ \A r \in DOMAIN buckets :
                    r # tokenBucket[t] =>
                       buckets'[r].lastRequestTimestamp
                          = buckets[r].lastRequestTimestamp
    /\ \A t \in Threads :
          /\ (pc[t] = "decrement" /\ pc'[t] # "decrement") =>
                event' = Returned(t, accountID[t], "True")
          /\ (IsReturn(event', t) /\ Value(event').outcome = "False") =>
                /\ pc[t] = "calculate"
                /\ buckets[tokenBucket[t]].currentCount = 0
                /\ buckets'[tokenBucket[t]].currentCount = 0
                /\ buckets'[tokenBucket[t]].lastRequestTimestamp
                      = buckets[tokenBucket[t]].lastRequestTimestamp
    /\ \A r \in (DOMAIN buckets') \ (DOMAIN buckets) :
          buckets'[r].lastRequestTimestamp = None

\* C11: lastRequestTimestamp changes only in a call that returns True; every
\* step of every behaviour is as C11_StampStep says.
C11_StampOnlyOnTrue == [][C11_StampStep]_vars

----------------------------------------------------------------------------
\* call j of the history is the first after call i, which returned True,
\* to find a refill interval elapsed since the timestamp call i wrote
DueSince(i, j) ==
    /\ i < j
    /\ history[i].outcome = "True"
    /\ \A k \in (i + 1) .. (j - 1) : history[k].outcome # "True"
    /\ history[j].now # None
    /\ Value(history[j].now) >= Value(history[i].stamp) + input.refillRate

\* C12: when the last call that returned True wrote the timestamp t0, a call
\* that reads the clock at t >= t0 + refillRate returns True, however many
\* calls returned False in between.
C12_NoProgressLost ==
    \A i \in DOMAIN history, j \in DOMAIN history :
        DueSince(i, j) => history[j].outcome = "True"

----------------------------------------------------------------------------
\* the step registers a bucket: only addAccount constructs one
Registers == Len(buckets') = Len(buckets) + 1

\* C13, one step: addAccount maps its account, and only that one, to a
\* bucket that did not exist before, full, with no timestamp and a free lock,
\* whatever the bucket it replaces held, and leaves every existing bucket
\* as it was; a call that starts takes the bucket its account is mapped to
\* at that moment, and a step of a call changes the bucket of that call only.
C13_RegisterStep ==
    /\ Registers =>
          \E a \in Accounts :
              /\ DOMAIN ratelimiterDict' = (DOMAIN ratelimiterDict) \cup {a}
              /\ ratelimiterDict'[a] = Len(buckets')
              /\ \A k \in (DOMAIN ratelimiterDict) \ {a} :
                    ratelimiterDict'[k] = ratelimiterDict[k]
              /\ \A r \in DOMAIN buckets : buckets'[r] = buckets[r]
              /\ buckets'[Len(buckets')].currentCount
                    = buckets'[Len(buckets')].maxTokens
              /\ buckets'[Len(buckets')].lastRequestTimestamp = None
              /\ ~buckets'[Len(buckets')].locked
    /\ \A t \in Threads :
          (pc[t] = "idle" /\ pc'[t] # "idle") =>
              /\ accountID'[t] \in DOMAIN ratelimiterDict
              /\ tokenBucket'[t] = ratelimiterDict[accountID'[t]]
    /\ \A r \in DOMAIN buckets :
          buckets'[r] # buckets[r] =>
              \E t \in Threads : tokenBucket[t] = r /\ pc'[t] # pc[t]

\* C13: addAccount on an account that has a bucket replaces the mapping by
\* the new bucket and keeps nothing of the old one, and every call that
\* starts afterwards is decided by the new bucket and changes only it;
\* every step of every behaviour is as C13_RegisterStep says.
C13_RegisterReplaces == [][C13_RegisterStep]_vars

\* an account whose first bucket was used is now mapped to its second
\* bucket: a call that took the first bucket before the replacement is still
\* in progress on it, and a call that started after the replacement has
\* found the second bucket full while the first is as its last call left it
C13_Witness ==
    \E a \in DOMAIN ratelimiterDict, t \in Threads, u \in Threads :
        /\ Len(buckets) = 2
        /\ ratelimiterDict[a] = 2
        /\ buckets[1].lastRequestTimestamp # None
        /\ buckets[1].currentCount < buckets[1].maxTokens
        /\ accountID[u] = a
        /\ tokenBucket[u] = 1
        /\ accountID[t] = a
        /\ tokenBucket[t] = 2
        /\ pc[t] = "decrement"
        /\ buckets[2].currentCount = buckets[2].maxTokens

----------------------------------------------------------------------------
\* the account of the call of thread t has been removed since the call
\* looked its bucket up
Deregistered(t) ==
    pc[t] # "idle" /\ accountID[t] \notin DOMAIN ratelimiterDict

\* C14, one step: a call whose account is removed while it is in progress
\* ends with True or False; a call that does not find its account ends with
\* KeyError and changes no bucket; removeAccount of a registered account
\* succeeds and changes no bucket and no call, one in progress on that
\* account included.
C14_RaceStep ==
    /\ \A t \in Threads :
          /\ (Deregistered(t) /\ IsReturn(event', t)) =>
                Value(event').outcome \in {"True", "False"}
          /\ (pc[t] = "idle" /\ IsReturn(event', t)) =>
                /\ Value(event').outcome = "KeyError"
                /\ buckets' = buckets
    /\ (event' # None /\ Value(event').op = "removeAccount"
           /\ Value(event').account \in DOMAIN ratelimiterDict) =>
          /\ Value(event').outcome = "ok"
          /\ buckets' = buckets
          /\ pc' = pc /\ tokenBucket' = tokenBucket

\* C14: a call on an account that is removed while the call is in progress
\* either found the bucket and ends with a boolean, or did not find it and
\* ends with KeyError touching no bucket, and the removal succeeds; every
\* step of every behaviour is as C14_RaceStep says.
C14_DeregisterRace == [][C14_RaceStep]_vars

----------------------------------------------------------------------------
\* C15, one step: a call that found its bucket ends with True or False, and
\* the step that ends it leaves the lock of its bucket free.
C15_ExitStep ==
    \A t \in Threads :
        (pc[t] # "idle" /\ IsReturn(event', t)) =>
            /\ Value(event').outcome \in {"True", "False"}
            /\ ~buckets'[tokenBucket[t]].locked

\* C15: every call on a registered account ends with a boolean and with
\* the lock of its bucket released; every step of every behaviour is as
\* C15_ExitStep says.
C15_BooleanExit == [][C15_ExitStep]_vars

----------------------------------------------------------------------------
\* the calls that are inside the with block of bucket r
Holders(r) == {t \in Threads : InCritical(t) /\ tokenBucket[t] = r}

\* C16: a lock is held only while a call is inside the with block of that
\* same bucket, and a call in progress whose bucket has no other call inside
\* its with block can take its next step, the acquisition of the lock
\* included, whatever locks of other buckets are held by other threads.
C16_NoCrossContention ==
    /\ \A r \in DOMAIN buckets : buckets[r].locked => Holders(r) # {}
    /\ \A u \in Threads :
          (pc[u] # "idle" /\ Holders(tokenBucket[u]) \subseteq {u}) =>
              ENABLED Step(u)

\* one thread is inside the with block of the bucket of one account while
\* the other thread has just taken the lock of the bucket of another account
C16_Witness ==
    \E t \in Threads, u \in Threads :
        /\ InCritical(t)
        /\ pc[u] = "calculate"
        /\ accountID[t] # accountID[u]
        /\ tokenBucket[t] # tokenBucket[u]
        /\ ratelimiterDict[accountID[t]] = tokenBucket[t]
        /\ ratelimiterDict[accountID[u]] = tokenBucket[u]
        /\ buckets[tokenBucket[t]].locked
        /\ buckets[tokenBucket[u]].locked

----------------------------------------------------------------------------
\* C17: in a call that returns True and whose calculateCurrentTokens read
\* the clock for the elapsed time, the lastRequestTimestamp the call stores
\* is that clock reading, even when the clock advances during the call.
C17_StampIsRefillInstant ==
    \A i \in DOMAIN history :
        (history[i].outcome = "True" /\ history[i].now # None) =>
            history[i].stamp = history[i].now

----------------------------------------------------------------------------
\* C18: in every reachable state, the states inside a running call
\* included, a bucket that has no lastRequestTimestamp holds maxTokens
\* tokens, so the skipped refill before the first request loses nothing.
C18_FullUntilFirstStamp ==
    \A r \in DOMAIN buckets :
        buckets[r].lastRequestTimestamp = None =>
            buckets[r].currentCount = buckets[r].maxTokens

\* the first call on a bucket is inside the with block, past the skipped
\* refill and the test of the count, and has not written the timestamp yet
C18_Witness ==
    \E t \in Threads :
        /\ pc[t] = "stamp"
        /\ buckets[tokenBucket[t]].lastRequestTimestamp = None
        /\ buckets[tokenBucket[t]].maxTokens > 0
        /\ buckets[tokenBucket[t]].currentCount = buckets[tokenBucket[t]].maxTokens
        /\ wall > 0

----------------------------------------------------------------------------
\* the instants the clock of the model can show
Instants == 0 .. GetCurrentTimeInSeconds(MaxWall)

\* the calls that returned True with a timestamp in the window [t1, t2]
AdmittedIn(t1, t2) ==
    {i \in Wins : t1 <= Value(history[i].stamp) /\ Value(history[i].stamp) <= t2}

\* C19: under both threads and every interleaving, the calls that return
\* True with their timestamps in a window [t1, t2] number at most
\* maxTokens + (t2 - t1) // refillRate (a bound that has a value unless
\* refillRate is 0).
C19_RateBound ==
    \A t1 \in Instants, t2 \in Instants :
        (t1 <= t2 /\ input.refillRate # 0) =>
            Cardinality(AdmittedIn(t1, t2))
               <= input.maxTokens + FloorDiv(t2 - t1, input.refillRate)

----------------------------------------------------------------------------
\* the bucket of account 1 is empty since its last admission
Starved ==
    /\ buckets[1].currentCount = 0
    /\ observed.admitted # None

\* a thread attempts a call on account 1, a refill interval or more after
\* the last admission
Attempted ==
    \E t \in Threads :
        /\ accountID[t] = SeqAccount
        /\ pc[t] = "acquire"
        /\ GetCurrentTimeInSeconds(wall)
              >= Value(observed.admitted) + buckets[1].refillRate

\* a call on account 1 has just returned True
Admitted == \E t \in Threads : event = Returned(t, SeqAccount, "True")

\* C20: on the registered bucket of account 1, with positive maxTokens and
\* refillRate, while the clock advances and the threads run their loops,
\* an empty bucket on which a call is attempted a refill interval or more
\* after the last admission always leads to a call that returns True,
\* whatever calls were rejected in between: the rejected calls do not stop
\* the tokens from accruing.
C20_NoPermanentRejection == (Starved /\ Attempted) ~> Admitted

\* a call has returned True and left the bucket empty once more, after a
\* call was rejected at an instant between the admission before and this one
C20_Witness ==
    /\ Admitted
    /\ buckets[1].currentCount = 0
    /\ observed.between

====
